---- MODULE Spec2Model ----
(***************************************************************************)
(* walgot: a terminal client for a wallabag read-later server.             *)
(*                                                                         *)
(* The repository holds two builds of the client:                          *)
(*   "main"  package main (main.go): the stand-alone program, no cache, no  *)
(*           dialog, page size fixed at 55;                                 *)
(*   "tui"   package tui (model.go): the model, the messages, the commands   *)
(*           with the on-disk cache, and the Update dispatcher.             *)
(* The view updaters, the table rows and the filters exist in main.go only; *)
(* both builds are modelled with them.  build selects the program that      *)
(* runs; it is chosen in Init and never changes.                            *)
(***************************************************************************)
EXTENDS Integers, Sequences, FiniteSets, Bags, TLC

VARIABLES
    build,      \* "main" or "tui"
    conf,       \* configuration: page size and default filters
    m,          \* the bubbletea model (struct model)
    exit,       \* "running", "quit" (tea.Quit), "exit1" (os.Exit(1)), "panic"
    cmds,       \* bag of commands in flight (closures not yet returned)
    msgs,       \* bag of messages produced by commands, not yet delivered
    cache,      \* the cache file /tmp/walgot-cache.dat
    remote,     \* number of entries on the wallabag server
    patched,    \* the entries a status update has changed on the server
    attempts,   \* number of count commands issued so far (history)
    counts,     \* the count requests sent: attempt and outcome (history)
    finished,   \* one record per sync closure that has returned (history)
    delivered,  \* type and attempt of the sync messages Update got (history)
    last,       \* the last message Update received and what it did (history)
    nkeys       \* number of keys pressed so far (history)

vars == <<build, conf, m, exit, cmds, msgs, cache, remote, patched, attempts,
          counts, finished, delivered, last, nkeys>>

----------------------------------------------------------------------------
(* Bounds of the model *)

MaxRemote == 2      \* tui build: the server holds 0..MaxRemote entries
MaxPerCall == 2     \* tui build: NbEntriesPerAPICall is in 1..MaxPerCall
MaxReloads == 1     \* reload keys accepted after the initial sync
MaxInFlight == 2    \* commands plus undelivered messages
MaxKeys == 2        \* keys the user presses
MaxItems == 3       \* entries of the lists the rows are computed from
MaxNavKeys == 3     \* keys the user presses while moving between the views

(* Program constants *)

articleByAPICall == 55

\* Totals tried for the main build, whose page size is fixed: none, one, one
\* more than a page, and the 120 of a three page sync.
MainTotals == {0, 1, articleByAPICall + 1, 120}

----------------------------------------------------------------------------
(* Small helpers *)

Min(a, b) == IF a < b THEN a ELSE b

Range(s) == {s[i] : i \in 1..Len(s)}

\* Go's x & y on non-negative integers.
RECURSIVE BitAnd(_, _)
BitAnd(x, y) ==
    IF x = 0 \/ y = 0 THEN 0
    ELSE (x % 2) * (y % 2) + 2 * BitAnd(x \div 2, y \div 2)

\* Go's x << n.
RECURSIVE Shl(_, _)
Shl(x, n) == IF n = 0 THEN x ELSE Shl(2 * x, n - 1)

\* strconv.Itoa for n >= 0: the decimal digits, most significant first.
RECURSIVE Itoa(_)
Itoa(n) == IF n < 10 THEN <<n>> ELSE Append(Itoa(n \div 10), n % 10)

\* strconv.Atoi on a digit string (the error result is dropped by the caller).
RECURSIVE Atoi(_)
Atoi(d) ==
    IF Len(d) = 0 THEN 0
    ELSE 10 * Atoi(SubSeq(d, 1, Len(d) - 1)) + d[Len(d)]

----------------------------------------------------------------------------
(* Entries and the remote gateway *)

\* wallabago.Item, reduced to the fields the client reads.  The server's
\* entry i has ID i; its flags vary with i so that all four flag
\* combinations occur among four consecutive entries.
Item(i) == [ID |-> i, IsArchived |-> i % 2, IsStarred |-> (i \div 2) % 2]

RemoteItems(n) == [i \in 1..n |-> Item(i)]

\* api.GetEntries(perPage, page, ...): the page'th slice of the server's list.
GetEntries(n, perPage, page) ==
    SubSeq(RemoteItems(n), (page - 1) * perPage + 1, Min(page * perPage, n))

\* api.UpdateEntry(entryID, archive, starred, public): the server keeps the
\* entry with the flags of the request.  p is the set of entries updated so
\* far, each with the number of count commands issued before the update
\* (at); a later update of an entry replaces the earlier one.
UpdateEntry(p, item, at) ==
    {u \in p : u.ID /= item.ID} \cup
        {[ID |-> item.ID, IsArchived |-> item.IsArchived,
          IsStarred |-> item.IsStarred, at |-> at]}

\* The entries as the server sends them once the updates p are applied.
Patched(items, p) ==
    [i \in 1..Len(items) |->
        IF \E u \in p : u.ID = items[i].ID
        THEN LET u == CHOOSE u \in p : u.ID = items[i].ID
             IN  [ID |-> u.ID, IsArchived |-> u.IsArchived,
                  IsStarred |-> u.IsStarred]
        ELSE items[i]]

----------------------------------------------------------------------------
(* The cache file *)

\* Permission bits of the cache files tried: 0600, 0644, 0640, 0604, 0601
\* and 0200 (not readable by its owner).
CacheModes == {384, 420, 416, 388, 385, 128}

\* The read bits of a file mode: 0400, 0040 and 0004.
OwnerRead == Shl(1, 8)
GroupRead == Shl(1, 5)
OtherRead == Shl(1, 2)

\* 0600, the mode os.OpenFile creates the cache file with.
CreateMode == 384

\* gob.NewEncoder(file).Encode(entries): the number of items, then the fields
\* of each item in order (ID, IsArchived, IsStarred).
GobFields(items) ==
    [k \in 1..(3 * Len(items)) |->
        LET item == items[(k - 1) \div 3 + 1]
        IN  CASE (k - 1) % 3 = 0 -> item.ID
              [] (k - 1) % 3 = 1 -> item.IsArchived
              [] OTHER           -> item.IsStarred]

GobEncode(items) == <<Len(items)>> \o GobFields(items)

\* gob.NewDecoder(...).Decode(&entries): fails on an empty or truncated
\* stream, otherwise rebuilds the items.
GobDecode(bytes) ==
    IF Len(bytes) = 0 \/ Len(bytes) /= 1 + 3 * bytes[1]
    THEN [ok |-> FALSE, items |-> <<>>]
    ELSE [ok |-> TRUE,
          items |-> [i \in 1..bytes[1] |->
                        [ID |-> bytes[3 * i - 1],
                         IsArchived |-> bytes[3 * i],
                         IsStarred |-> bytes[3 * i + 1]]]]

\* The snapshot an earlier run left in the cache.
OldSnapshot ==
    << [ID |-> 1, IsArchived |-> 0, IsStarred |-> 1],
       [ID |-> 2, IsArchived |-> 1, IsStarred |-> 0] >>

NoCache == [present |-> FALSE, mode |-> 0, data |-> <<>>]

\* The cache files tried: a well-formed snapshot of two entries under each
\* mode, and under mode 0600 also a snapshot of no entry and an empty
\* (truncated) file.
CacheFiles ==
    [present : {TRUE}, mode : CacheModes, data : {GobEncode(OldSnapshot)}]
    \cup [present : {TRUE}, mode : {CreateMode}, data : {GobEncode(<<>>), <<>>}]

\* The test of requestWallabagEntries on the file mode, as Go parses it:
\* & and << have the same precedence and associate to the left, so
\* info.Mode()&1<<2 is (info.Mode()&1)<<2.
CacheGateTrips(mode) == Shl(BitAnd(mode, 1), 2) /= 0

\* os.ReadFile succeeds when the owner may read the file.
ReadFileOk(mode) == BitAnd(mode, OwnerRead) /= 0

----------------------------------------------------------------------------
(* Messages and commands *)

Msg(type, n, items, text, att) ==
    [type |-> type, n |-> n, items |-> items, text |-> text, att |-> att]

KeyMsg(k) == Msg("key", 0, <<>>, k, 0)
wallabagoResponseErrorMsg(text, att) == Msg("error", 0, <<>>, text, att)
wallabagoResponseNbEntitiesMsg(n, att) == Msg("nbEntities", n, <<>>, "", att)
wallabagoResponseEntitiesMsg(items, att) == Msg("entities", 0, items, "", att)
wallabagoResponseEntityUpdateMsg(item) == Msg("entityUpdate", 0, <<item>>, "", 0)
wallabagoResponseClearMsg(b) == Msg("clear", IF b THEN 1 ELSE 0, <<>>, "", 0)
walgotSelectRowMsg(id) == Msg("selectRow", id, <<>>, "", 0)

ErrCount == "couldn't retrieve the total number of entries from wallabag API"
ErrSecurity == "couldn't read cache file for security reasons"
ErrDecode == "couldn't load the entries from cache"
ErrPage == "couldn't retrieve the entries from wallabag API"
ErrOpen == "couldn't open file to cache Wallabag entries"
ErrEncode == "couldn't decode cache file to Wallabag entries slice"
ErrUpdate == "Couldn't update the selected entry"
ErrInvalid == "Response from wallabago is not valid"

\* A command in flight.  type "nbEntries": requestWallabagNbEntries.
\* type "entries": the closure requestWallabagEntries returned; file is the
\* cache file os.Stat and os.ReadFile saw, early the error a closure of
\* lines 182-187 or 193-198 will return, entries the slice the closure
\* captured, i the next page to request, reqs the pages requested so far,
\* failedAt the first page whose request failed (0: none).
Cmd(type, att, nb, perCall, file, early, entries) ==
    [type |-> type, att |-> att, nb |-> nb, perCall |-> perCall,
     file |-> file, early |-> early, entries |-> entries, i |-> 1,
     reqs |-> <<>>, failedAt |-> 0]

NbEntriesCmd(att) == Cmd("nbEntries", att, 0, 0, NoCache, "", <<>>)

\* requestWallabagEntryUpdate: the command holds the entry as the server will
\* return it (the model keeps no public flag).
requestWallabagEntryUpdate(entryID, archive, starred, public) ==
    Cmd("entryUpdate", 0, entryID, 0, NoCache, "",
        <<[ID |-> entryID, IsArchived |-> archive, IsStarred |-> starred]>>)

\* requestWallabagAddEntry and requestWallabagEntryDelete: the closures hold
\* the URL and the ID.
requestWallabagAddEntry(url) ==
    [url |-> url] @@ Cmd("addEntry", 0, 0, 0, NoCache, "", <<>>)

requestWallabagEntryDelete(id) ==
    Cmd("entryDelete", 0, id, 0, NoCache, "", <<>>)

One(x) == SetToBag({x})

InFlight == BagCardinality(cmds) + BagCardinality(msgs)

----------------------------------------------------------------------------
(* Pure functions of the client *)

\* A variant that forgets the last, partial page.
getRequiredNbAPICallsFloor(nbArticles, limitArticleByAPICall) ==
    IF nbArticles > limitArticleByAPICall
    THEN nbArticles \div limitArticleByAPICall
    ELSE 1

\* The number of page requests of one sync (main.go computes it in line; the
\* tui build calls getRequiredNbAPICalls, the same computation).  The test
\* float64(nbCalls) < float64(nbArticles)/float64(limit) is, on integers,
\* nbCalls * limit < nbArticles.
getRequiredNbAPICalls(nbArticles, limitArticleByAPICall) ==
    IF nbArticles > limitArticleByAPICall
    THEN LET nbCalls == nbArticles \div limitArticleByAPICall
         IN  IF nbCalls * limitArticleByAPICall < nbArticles
             THEN nbCalls + 1
             ELSE nbCalls
    ELSE 1

\* One table row: the ID as a string, then the starred and archived marks.
TableRow(item) ==
    << Itoa(item.ID),
       IF item.IsStarred = 1 THEN "*" ELSE " ",
       IF item.IsArchived = 1 THEN "v" ELSE " " >>

\* A variant whose starred test is inverted.
RowSkippedStarredInverted(item, filters) ==
    \/ filters.Unread /\ item.IsArchived /= 0
    \/ filters.Starred /\ item.IsStarred = 1
    \/ filters.Archived /\ item.IsArchived /= 1

\* Whether getTableRows skips the item (one of its three continue statements).
RowSkipped(item, filters) ==
    \/ filters.Unread /\ item.IsArchived /= 0
    \/ filters.Starred /\ item.IsStarred /= 1
    \/ filters.Archived /\ item.IsArchived /= 1

\* The loop of getTableRows: the items not skipped, in order, each as a row.
getTableRows(items, filters) ==
    LET Kept(item) == ~RowSkipped(item, filters)
        kept == SelectSeq(items, Kept)
    IN  [i \in 1..Len(kept) |-> TableRow(kept[i])]

\* A variant that toggles the flag of the key and clears no other.
FiltersAfterKeyNoClear(msg, f) ==
    IF msg = "u" THEN [f EXCEPT !.Unread = ~f.Unread]
    ELSE IF msg = "s" THEN [f EXCEPT !.Starred = ~f.Starred]
    ELSE IF msg = "a" THEN [f EXCEPT !.Archived = ~f.Archived]
    ELSE f

\* The filter fields after the key msg ("u", "s" or "a").
FiltersAfterKey(msg, f) ==
    LET f1 == IF msg = "u"
              THEN [f EXCEPT !.Unread = ~f.Unread,
                             !.Archived = IF ~f.Unread THEN FALSE ELSE @]
              ELSE f
        f2 == IF msg = "s" THEN [f1 EXCEPT !.Starred = ~f1.Starred] ELSE f1
    IN  IF msg = "a"
        THEN [f2 EXCEPT !.Archived = ~f2.Archived,
                        !.Unread = IF ~f2.Archived THEN FALSE ELSE @]
        ELSE f2

listViewFiltersUpdate(msg, mm) ==
    LET f == FiltersAfterKey(msg, mm.Filters)
    IN  [mm EXCEPT !.Filters = f, !.Rows = getTableRows(mm.Entries, f)]

\* A variant that answers 0 when no entry has the ID.
getSelectedEntryIndexZero(entries, id) ==
    LET hits == {i \in 1..Len(entries) : entries[i].ID = id}
    IN  IF hits = {} THEN 0
        ELSE (CHOOSE i \in hits : \A j \in hits : i <= j) - 1

\* Index (from 0, as in Go) of the first entry with the given ID, or -1.
getSelectedEntryIndex(entries, id) ==
    LET hits == {i \in 1..Len(entries) : entries[i].ID = id}
    IN  IF hits = {} THEN -1
        ELSE (CHOOSE i \in hits : \A j \in hits : i <= j) - 1

\* The viewport content: the ID of the entry shown, or 0 when the
\* placeholders "Title loading..." and "Content loading..." are shown; -1
\* when entries[index] is out of range, where Go panics.
getDetailViewportContent(selectedID, entries) ==
    LET index == getSelectedEntryIndex(entries, selectedID)
    IN  IF index >= 0
        THEN IF index < Len(entries) THEN entries[index + 1].ID ELSE -1
        ELSE 0

----------------------------------------------------------------------------
(* Commands built by the updaters *)

\* A variant that never looks at the cache file.
requestWallabagEntriesNoCache(nbArticles, nbEntriesPerAPICall, file, att) ==
    Cmd("entries", att, nbArticles, nbEntriesPerAPICall, file, "", <<>>)

\* A variant that goes on to the remote fetch when the permission test
\* rejects the cache file.
requestWallabagEntriesGateFallsBack(nbArticles, nbEntriesPerAPICall, file, att) ==
    IF file.present /\ ~CacheGateTrips(file.mode) /\ ReadFileOk(file.mode)
    THEN LET d == GobDecode(file.data)
         IN  IF d.ok
             THEN Cmd("entries", att, nbArticles, nbEntriesPerAPICall, file,
                      "", d.items)
             ELSE Cmd("entries", att, nbArticles, nbEntriesPerAPICall, file,
                      ErrDecode, <<>>)
    ELSE Cmd("entries", att, nbArticles, nbEntriesPerAPICall, file, "", <<>>)

\* tui build: the part of requestWallabagEntries that runs when it is called
\* (inside Update): os.Stat, the permission test, os.ReadFile and the gob
\* decoding.  file is the cache file at that moment.
requestWallabagEntries(nbArticles, nbEntriesPerAPICall, file, att) ==
    IF file.present /\ CacheGateTrips(file.mode)
    THEN Cmd("entries", att, nbArticles, nbEntriesPerAPICall, file,
             ErrSecurity, <<>>)
    ELSE IF file.present /\ ReadFileOk(file.mode)
    THEN LET d == GobDecode(file.data)
         IN  IF d.ok
             THEN Cmd("entries", att, nbArticles, nbEntriesPerAPICall, file,
                      "", d.items)
             ELSE Cmd("entries", att, nbArticles, nbEntriesPerAPICall, file,
                      ErrDecode, <<>>)
    ELSE Cmd("entries", att, nbArticles, nbEntriesPerAPICall, file, "", <<>>)

\* main build: requestWallabagEntries only fixes the page size.
requestWallabagEntriesMain(nbArticles, att) ==
    Cmd("entries", att, nbArticles, articleByAPICall, NoCache, "", <<>>)

----------------------------------------------------------------------------
(* The model and the view updaters *)

\* walgotDialog; TextInput is the value of the text input, one key per
\* element.
NoDialog ==
    [Message |-> "", TextInput |-> <<>>, ShowInput |-> FALSE, Action |-> ""]

\* The dialog an error message opens when no dialog is open.
ErrorDialog(text) == [NoDialog EXCEPT !.Message = text]

\* The dialog that asks for the URL of a new entry.
AddDialog ==
    [Message |-> "Add URL", TextInput |-> <<>>, ShowInput |-> TRUE,
     Action |-> "add"]

\* The action tag of the dialog that confirms the deletion of entry id.
DeleteAction(id) == "delete-entry:" \o ToString(id)

DeleteDialog(id) ==
    [Message |-> "Delete entry?", TextInput |-> <<>>, ShowInput |-> FALSE,
     Action |-> DeleteAction(id)]

\* NewModel (tui build) and initialModel (main build).  The main build has no
\* Dialog and no UpdateMessage; they stay empty there.
NewModel(config) ==
    [SelectedID |-> 0,
     Reloading |-> TRUE,
     CurrentView |-> "list",
     TotalEntriesOnServer |-> 0,
     NbEntriesPerAPICall |-> config.perCall,
     Dialog |-> NoDialog,
     UpdateMessage |-> "",
     Filters |-> [Unread |-> config.unread, Starred |-> config.starred,
                  Archived |-> FALSE],
     Entries |-> <<>>,
     Rows |-> <<>>,
     Viewport |-> 0]

initialModel ==
    NewModel([perCall |-> articleByAPICall, unread |-> TRUE, starred |-> FALSE])

\* What an updater returns: the model, the commands and messages it issues
\* (a command that only wraps a value is given as its message), and how the
\* program ends, if it does ("" when it goes on).
Res(mm, c, o, x) == [m |-> mm, cmds |-> c, msgs |-> o, exit |-> x]

Stay(mm) == Res(mm, EmptyBag, EmptyBag, "")

\* A variant that does not handle the back key.
updateHelpViewIgnoresBack(msg, mm) == Stay(mm)

updateHelpView(msg, mm) ==
    IF msg.type = "key" /\ msg.text = "q"
    THEN Stay([mm EXCEPT !.CurrentView = "list"])
    ELSE Stay(mm)

updateEntryView(msg, mm) ==
    IF msg.type = "selectRow"
    THEN Stay([mm EXCEPT !.CurrentView = "detail",
                         !.Viewport = getDetailViewportContent(mm.SelectedID,
                                                               mm.Entries)])
    ELSE IF msg.type = "key" /\ msg.text = "q"
    THEN Stay([mm EXCEPT !.CurrentView = "list", !.SelectedID = 0])
    ELSE Stay(mm)

\* The status keys of the detail updater of the tui build: "S" flips the
\* starred flag and "A" the archived flag of the selected entry; the update
\* command is issued and the status banner is set.
updateEntryViewStatusKey(msg, mm) ==
    LET index == getSelectedEntryIndex(mm.Entries, mm.SelectedID)
    IN  IF index < 0 THEN Stay(mm)
        ELSE LET e == mm.Entries[index + 1]
                 archive == IF msg.text = "A" THEN 1 - e.IsArchived
                            ELSE e.IsArchived
                 starred == IF msg.text = "S" THEN 1 - e.IsStarred
                            ELSE e.IsStarred
             IN  Res([mm EXCEPT !.UpdateMessage = "Updating entry"],
                     One(requestWallabagEntryUpdate(e.ID, archive, starred, 0)),
                     EmptyBag, "")

\* mainView: what is rendered.
mainView(mm) ==
    IF mm.Reloading THEN "loading"
    ELSE IF mm.CurrentView = "help" THEN "help"
    ELSE IF mm.SelectedID > 0 THEN "detail"
    ELSE "list"

\* b is the build, file the cache file, att the number of the next count
\* command.
updateListView(msg, mm, b, file, att) ==
    IF msg.type = "key" THEN
        CASE msg.text = "enter" ->
                \* m.Table.SelectedRow()[0]: with no row the index panics.
                IF Len(mm.Rows) = 0
                THEN Res(mm, EmptyBag, EmptyBag, "panic")
                ELSE Res(mm, EmptyBag,
                         One(walgotSelectRowMsg(Atoi(mm.Rows[1][1]))), "")
          [] msg.text = "q" -> Res(mm, EmptyBag, EmptyBag, "quit")
          [] msg.text = "r" ->
                Res([mm EXCEPT !.Reloading = TRUE, !.TotalEntriesOnServer = 0],
                    One(NbEntriesCmd(att)), EmptyBag, "")
          [] msg.text \in {"u", "s", "a"} ->
                Stay(listViewFiltersUpdate(msg.text, mm))
          [] OTHER -> Stay(mm)
    ELSE IF msg.type = "nbEntities" THEN
        LET m1 == [mm EXCEPT !.TotalEntriesOnServer = msg.n]
        IN  Res(m1,
                One(IF b = "tui"
                    THEN requestWallabagEntries(m1.TotalEntriesOnServer,
                                                m1.NbEntriesPerAPICall, file,
                                                msg.att)
                    ELSE requestWallabagEntriesMain(m1.TotalEntriesOnServer,
                                                    msg.att)),
                EmptyBag, "")
    ELSE IF msg.type = "entities" THEN
        Stay([mm EXCEPT !.Reloading = FALSE,
                        !.Entries = msg.items,
                        !.Rows = getTableRows(msg.items, mm.Filters)])
    ELSE Stay(mm)

\* The commands confirming the dialog d issues: what its action tag names.
DialogAction(d, entries) ==
    IF d.Action = "add" THEN One(requestWallabagAddEntry(d.TextInput))
    ELSE IF \E i \in 1..Len(entries) : d.Action = DeleteAction(entries[i].ID)
    THEN One(requestWallabagEntryDelete(
                 (CHOOSE e \in Range(entries) : d.Action = DeleteAction(e.ID)).ID))
    ELSE EmptyBag

\* The dialog updater: confirming ("enter") runs the action tagged on the
\* dialog and closes it, cancelling ("esc") closes it; any other key goes
\* to the text input when the dialog has one; other messages leave the model
\* alone.
updateDialogView(msg, mm) ==
    IF msg.type = "key" THEN
        CASE msg.text = "enter" ->
                Res([mm EXCEPT !.Dialog = NoDialog],
                    DialogAction(mm.Dialog, mm.Entries), EmptyBag, "")
          [] msg.text = "esc" -> Stay([mm EXCEPT !.Dialog = NoDialog])
          [] OTHER ->
                IF mm.Dialog.ShowInput
                THEN Stay([mm EXCEPT !.Dialog.TextInput = Append(@, msg.text)])
                ELSE Stay(mm)
    ELSE Stay(mm)

\* updatedEntryInModel: the entry with the ID of the updated one is replaced.
updatedEntryInModel(mm, item) ==
    [mm EXCEPT !.Entries = [i \in 1..Len(mm.Entries) |->
                               IF mm.Entries[i].ID = item.ID THEN item
                               ELSE mm.Entries[i]]]

----------------------------------------------------------------------------
(* The dispatcher *)

\* What Update returns, and the view updater it passed the message to
\* ("none" when it returned before the routing).
Routed(r, to) ==
    [m |-> r.m, cmds |-> r.cmds, msgs |-> r.msgs, exit |-> r.exit, to |-> to]

\* A variant whose quit key is only looked at while no dialog is open.
GlobalKeyNotInDialog(msg, mm) ==
    IF msg.type = "key" /\ msg.text = "ctrl+c" /\ mm.Dialog.Message = ""
    THEN "quit"
    ELSE IF msg.type = "key" /\ msg.text = "?" /\ ~mm.Reloading THEN "help"
    ELSE ""

\* tui build, lines 338-346: the global keys.
GlobalKey(msg, mm) ==
    IF msg.type = "key" /\ msg.text = "ctrl+c" THEN "quit"
    ELSE IF msg.type = "key" /\ msg.text = "?" /\ ~mm.Reloading THEN "help"
    ELSE ""

\* A variant whose error branch leaves the dialog alone.
BeforeRoutingNoDialog(msg, mm) ==
    IF msg.type = "error"
    THEN [mm EXCEPT !.Reloading = FALSE]
    ELSE IF msg.type = "clear" /\ msg.n = 1
    THEN [mm EXCEPT !.UpdateMessage = ""]
    ELSE IF msg.type = "selectRow"
    THEN [mm EXCEPT !.SelectedID = msg.n]
    ELSE mm

\* A variant without the branch of the clear message.
BeforeRoutingNoClear(msg, mm) ==
    IF msg.type = "error"
    THEN [mm EXCEPT !.Reloading = FALSE, !.Dialog.Message = msg.text]
    ELSE IF msg.type = "selectRow"
    THEN [mm EXCEPT !.SelectedID = msg.n]
    ELSE mm

\* A variant that leaves the selection to the view updaters.
BeforeRoutingNoSelect(msg, mm) ==
    IF msg.type = "error"
    THEN [mm EXCEPT !.Reloading = FALSE, !.Dialog.Message = msg.text]
    ELSE IF msg.type = "clear" /\ msg.n = 1
    THEN [mm EXCEPT !.UpdateMessage = ""]
    ELSE mm

\* tui build, lines 348-370: what Update does to the model before the
\* routing (the entity update returns at once and is not handled here).
BeforeRouting(msg, mm) ==
    IF msg.type = "error"
    THEN [mm EXCEPT !.Reloading = FALSE, !.Dialog.Message = msg.text]
    ELSE IF msg.type = "clear" /\ msg.n = 1
    THEN [mm EXCEPT !.UpdateMessage = ""]
    ELSE IF msg.type = "selectRow"
    THEN [mm EXCEPT !.SelectedID = msg.n]
    ELSE mm

\* A variant that looks at the selection before the dialog.
RouteDetailFirst(mm) ==
    IF mm.SelectedID > 0 THEN "detail"
    ELSE IF mm.Dialog.Message /= "" THEN "dialog"
    ELSE IF mm.CurrentView = "help" THEN "help"
    ELSE "list"

\* tui build, lines 372-383: the view updater chosen.
Route(mm) ==
    IF mm.Dialog.Message /= "" THEN "dialog"
    ELSE IF mm.CurrentView = "help" THEN "help"
    ELSE IF mm.SelectedID > 0 THEN "detail"
    ELSE "list"

Dispatch(to, msg, mm, b, file, att) ==
    CASE to = "dialog" -> updateDialogView(msg, mm)
      [] to = "help"   -> updateHelpView(msg, mm)
      [] to = "detail" ->
            IF b = "tui" /\ msg.type = "key" /\ msg.text \in {"S", "A"}
            THEN updateEntryViewStatusKey(msg, mm)
            ELSE updateEntryView(msg, mm)
      [] OTHER         -> updateListView(msg, mm, b, file, att)

\* A variant whose entity-update branch schedules no clear message.
UpdateTuiNoClear(msg, mm, file, att) ==
    IF GlobalKey(msg, mm) = "quit"
    THEN Routed(Res(mm, EmptyBag, EmptyBag, "quit"), "none")
    ELSE IF GlobalKey(msg, mm) = "help"
    THEN Routed(Stay([mm EXCEPT !.CurrentView = "help"]), "none")
    ELSE IF msg.type = "entityUpdate"
    THEN Routed(Stay(updatedEntryInModel(mm, msg.items[1])), "none")
    ELSE LET m1 == BeforeRouting(msg, mm)
             to == Route(m1)
         IN  Routed(Dispatch(to, msg, m1, "tui", file, att), to)

\* A variant whose clear branch returns like the entity-update branch.
UpdateTuiClearReturns(msg, mm, file, att) ==
    IF GlobalKey(msg, mm) = "quit"
    THEN Routed(Res(mm, EmptyBag, EmptyBag, "quit"), "none")
    ELSE IF GlobalKey(msg, mm) = "help"
    THEN Routed(Stay([mm EXCEPT !.CurrentView = "help"]), "none")
    ELSE IF msg.type = "entityUpdate"
    THEN Routed(Res(updatedEntryInModel(mm, msg.items[1]), EmptyBag,
                    One(wallabagoResponseClearMsg(TRUE)), ""), "none")
    ELSE IF msg.type = "clear"
    THEN Routed(Stay(BeforeRouting(msg, mm)), "none")
    ELSE LET m1 == BeforeRouting(msg, mm)
             to == Route(m1)
         IN  Routed(Dispatch(to, msg, m1, "tui", file, att), to)

\* model.Update of the tui build.
UpdateTui(msg, mm, file, att) ==
    IF GlobalKey(msg, mm) = "quit"
    THEN Routed(Res(mm, EmptyBag, EmptyBag, "quit"), "none")
    ELSE IF GlobalKey(msg, mm) = "help"
    THEN Routed(Stay([mm EXCEPT !.CurrentView = "help"]), "none")
    ELSE IF msg.type = "entityUpdate"
    THEN Routed(Res(updatedEntryInModel(mm, msg.items[1]), EmptyBag,
                    One(wallabagoResponseClearMsg(TRUE)), ""), "none")
    ELSE LET m1 == BeforeRouting(msg, mm)
             to == Route(m1)
         IN  Routed(Dispatch(to, msg, m1, "tui", file, att), to)

\* main build, lines 124-132: the view updater chosen.
RouteMain(mm) ==
    IF mm.CurrentView = "help" THEN "help"
    ELSE IF mm.SelectedID > 0 THEN "detail"
    ELSE "list"

\* model.Update of the main build.
UpdateMain(msg, mm, att) ==
    IF msg.type = "key" /\ msg.text = "ctrl+c"
    THEN Routed(Res(mm, EmptyBag, EmptyBag, "quit"), "none")
    ELSE IF msg.type = "key" /\ msg.text = "?"
    THEN Routed(Stay([mm EXCEPT !.CurrentView = "help"]), "none")
    ELSE LET m1 == IF msg.type = "selectRow"
                   THEN [mm EXCEPT !.SelectedID = msg.n]
                   ELSE mm
             to == RouteMain(m1)
         IN  Routed(Dispatch(to, msg, m1, "main", NoCache, att), to)

Update(msg, mm, b, file, att) ==
    IF b = "tui" THEN UpdateTui(msg, mm, file, att) ELSE UpdateMain(msg, mm, att)

----------------------------------------------------------------------------
(* The state machine *)

Keys == {"ctrl+c", "?", "q", "enter", "esc", "r", "u", "s", "a"}

\* last: the message (type, text, n, att), the updater it went to, what the
\* model was when Update was called (a dialog open, the help view, an entry
\* selected, reloading, the status banner set), whether Update left Entries
\* as they were, and the payload of the entries message Update received last.
NoLast ==
    [type |-> "none", text |-> "", n |-> 0, att |-> 0, to |-> "none",
     preDialog |-> FALSE, preHelp |-> FALSE, preSel |-> FALSE,
     reloading |-> TRUE, kept |-> TRUE, payload |-> <<>>,
     preBanner |-> FALSE]

Init ==
    /\ build \in {"main", "tui"}
    /\ IF build = "tui"
       THEN \* Without a cache file every configuration and every total is
            \* tried; with one, the smallest page size and the largest total.
            /\ \/ /\ cache = NoCache
                  /\ conf \in [perCall : 1..MaxPerCall, unread : BOOLEAN,
                               starred : {FALSE}]
                  /\ remote \in 0..MaxRemote
               \/ /\ cache \in CacheFiles
                  /\ conf = [perCall |-> 1, unread |-> TRUE,
                            starred |-> FALSE]
                  /\ remote = MaxRemote
            /\ m = NewModel(conf)
       ELSE /\ conf = [perCall |-> articleByAPICall, unread |-> TRUE,
                       starred |-> FALSE]
            /\ remote \in MainTotals
            /\ cache = NoCache
            /\ m = initialModel
    /\ patched = {}
    /\ exit = "running"
    \* model.Init: requestWallabagNbEntries is the first command.
    /\ cmds = One(NbEntriesCmd(1))
    /\ msgs = EmptyBag
    /\ attempts = 1
    /\ counts = {}
    /\ delivered = {}
    /\ finished = {}
    /\ last = NoLast
    /\ nkeys = 0

\* Update is called with msg; r is what it returned.
Apply(msg, r) ==
    /\ m' = r.m
    /\ exit' = IF r.exit = "" THEN "running" ELSE r.exit
    /\ attempts' = IF \E c \in BagToSet(r.cmds) : c.type = "nbEntries"
                   THEN attempts + 1
                   ELSE attempts
    /\ last' = [type |-> msg.type, text |-> msg.text, n |-> msg.n,
                att |-> msg.att, to |-> r.to,
                preDialog |-> m.Dialog.Message /= "",
                preHelp |-> m.CurrentView = "help",
                preSel |-> m.SelectedID > 0,
                reloading |-> m.Reloading, kept |-> r.m.Entries = m.Entries,
                payload |-> IF msg.type = "entities" THEN msg.items
                            ELSE last.payload,
                preBanner |-> m.UpdateMessage /= ""]
    /\ delivered' = IF msg.att > 0
                    THEN delivered \cup {[type |-> msg.type, att |-> msg.att]}
                    ELSE delivered
    /\ UNCHANGED <<build, conf, cache, remote, patched, counts, finished>>

\* Update is called with the key k.
KeyPressed(k) ==
    /\ exit = "running"
    /\ nkeys' = nkeys + 1
    /\ k = "r" => attempts <= MaxReloads
    /\ k \in {"r", "enter"} => InFlight < MaxInFlight
    /\ LET msg == KeyMsg(k)
           r == Update(msg, m, build, cache, attempts + 1)
       IN  /\ Apply(msg, r)
           /\ cmds' = cmds (+) r.cmds
           /\ msgs' = msgs (+) r.msgs

\* The user presses a key.
Key(k) == nkeys < MaxKeys /\ KeyPressed(k)

\* The event loop hands a message of a command to Update.
Deliver(msg) ==
    /\ exit = "running"
    /\ BagIn(msg, msgs)
    /\ nkeys' = nkeys
    /\ LET r == Update(msg, m, build, cache, attempts + 1)
       IN  /\ Apply(msg, r)
           /\ cmds' = cmds (+) r.cmds
           /\ msgs' = (msgs (-) One(msg)) (+) r.msgs


\* The record kept of a sync closure that has returned: the cache file it
\* was built from, the pages it requested, the first page that failed, the
\* entries it held at the end, whether the cache satisfied it, how the
\* writing of the cache went ("" when it was not tried), and the message
\* returned.
Finished(c, fromCache, how, msg) ==
    [att |-> c.att, nb |-> c.nb, perCall |-> c.perCall, file |-> c.file,
     reqs |-> c.reqs, failedAt |-> c.failedAt, fetched |-> c.entries,
     fromCache |-> fromCache, how |-> how, emitted |-> msg.type,
     text |-> msg.text, items |-> msg.items]

\* A closure returns msg and is gone.
Return(c, msg) ==
    /\ cmds' = cmds (-) One(c)
    /\ msgs' = msgs (+) One(msg)

\* The sync closure c returns msg.
SyncReturns(c, fromCache, how, msg) ==
    /\ Return(c, msg)
    /\ finished' = finished \cup {Finished(c, fromCache, how, msg)}

\* requestWallabagNbEntries runs: the count request is answered or fails.
\* The tui build returns an error message, the main build calls os.Exit(1).
CountReply(c, ok) ==
    /\ exit = "running"
    /\ BagIn(c, cmds)
    /\ c.type = "nbEntries"
    /\ counts' = counts \cup {[att |-> c.att, ok |-> ok]}
    /\ IF ok
       THEN /\ Return(c, wallabagoResponseNbEntitiesMsg(remote, c.att))
            /\ exit' = exit
       ELSE IF build = "tui"
       THEN /\ Return(c, wallabagoResponseErrorMsg(ErrCount, c.att))
            /\ exit' = exit
       ELSE /\ cmds' = cmds (-) One(c)
            /\ msgs' = msgs
            /\ exit' = "exit1"
    /\ UNCHANGED <<build, conf, m, cache, remote, patched, attempts, finished,
                   delivered, last, nkeys>>

\* tui build: the closure of lines 182-187 or 193-198 returns its error.
SyncEarlyError(c) ==
    /\ exit = "running"
    /\ BagIn(c, cmds)
    /\ c.type = "entries"
    /\ c.early /= ""
    /\ SyncReturns(c, FALSE, "", wallabagoResponseErrorMsg(c.early, c.att))
    /\ UNCHANGED <<build, conf, m, exit, cache, remote, patched, attempts,
                   counts, delivered, last, nkeys>>

\* The closure has not requested a page yet.
AtStart(c) == c.i = 1 /\ c.reqs = <<>>

\* tui build, lines 204-206: the slice decoded from the cache is not empty.
SyncFromCache(c) ==
    /\ exit = "running"
    /\ BagIn(c, cmds)
    /\ c.type = "entries"
    /\ c.early = ""
    /\ AtStart(c)
    /\ Len(c.entries) > 0
    /\ SyncReturns(c, TRUE, "", wallabagoResponseEntitiesMsg(c.entries, c.att))
    /\ UNCHANGED <<build, conf, m, exit, cache, remote, patched, attempts,
                   counts, delivered, last, nkeys>>

\* The closure is in its loop and page c.i is the next to request.
InLoop(c) ==
    /\ c.type = "entries"
    /\ c.early = ""
    /\ ~(AtStart(c) /\ Len(c.entries) > 0)
    /\ c.i < getRequiredNbAPICalls(c.nb, c.perCall) + 1

\* One turn of the loop: page c.i is requested and answered.
SyncPageOk(c) ==
    /\ exit = "running"
    /\ BagIn(c, cmds)
    /\ InLoop(c)
    /\ cmds' = (cmds (-) One(c)) (+)
               One([c EXCEPT !.entries =
                                @ \o Patched(GetEntries(remote, c.perCall, c.i),
                                             patched),
                             !.reqs = Append(@, c.i),
                             !.i = @ + 1])
    /\ UNCHANGED <<build, conf, m, exit, msgs, cache, remote, patched,
                   attempts, counts, finished, delivered, last, nkeys>>

\* One turn of the loop: the request of page c.i fails.  The tui build
\* returns an error message; the main build logs and goes on with the empty
\* result.
SyncPageFails(c) ==
    /\ exit = "running"
    /\ BagIn(c, cmds)
    /\ InLoop(c)
    /\ LET c1 == [c EXCEPT !.reqs = Append(@, c.i),
                           !.failedAt = IF @ = 0 THEN c.i ELSE @]
       IN  IF build = "tui"
           THEN /\ Return(c, wallabagoResponseErrorMsg(ErrPage, c.att))
                /\ finished' = finished \cup
                      {Finished(c1, FALSE, "",
                                wallabagoResponseErrorMsg(ErrPage, c.att))}
           ELSE /\ cmds' = (cmds (-) One(c)) (+) One([c1 EXCEPT !.i = @ + 1])
                /\ msgs' = msgs
                /\ finished' = finished
    /\ UNCHANGED <<build, conf, m, exit, cache, remote, patched, attempts,
                   counts, delivered, last, nkeys>>

\* The loop is over.
AfterLoop(c) ==
    /\ c.type = "entries"
    /\ c.early = ""
    /\ ~(AtStart(c) /\ Len(c.entries) > 0)
    /\ ~(c.i < getRequiredNbAPICalls(c.nb, c.perCall) + 1)

\* main build, line 361: the entries are returned.
SyncDoneMain(c) ==
    /\ exit = "running"
    /\ build = "main"
    /\ BagIn(c, cmds)
    /\ AfterLoop(c)
    /\ SyncReturns(c, FALSE, "", wallabagoResponseEntitiesMsg(c.entries, c.att))
    /\ UNCHANGED <<build, conf, m, exit, cache, remote, patched, attempts,
                   counts, delivered, last, nkeys>>

\* tui build, lines 230-247: the cache file is opened (created or truncated)
\* and the entries are encoded into it.  how is "ok", "open" (os.OpenFile
\* fails, the file is as it was) or "encode" (the encoding fails, the file
\* is left truncated).
SyncDoneTui(c, how) ==
    /\ exit = "running"
    /\ build = "tui"
    /\ BagIn(c, cmds)
    /\ AfterLoop(c)
    /\ LET opened == [present |-> TRUE,
                      mode |-> IF cache.present THEN cache.mode ELSE CreateMode,
                      data |-> <<>>]
       IN  CASE how = "open" ->
                  /\ cache' = cache
                  /\ SyncReturns(c, FALSE, how,
                                 wallabagoResponseErrorMsg(ErrOpen, c.att))
             [] how = "encode" ->
                  /\ cache' = opened
                  /\ SyncReturns(c, FALSE, how,
                                 wallabagoResponseErrorMsg(ErrEncode, c.att))
             [] OTHER ->
                  /\ cache' = [opened EXCEPT !.data = GobEncode(c.entries)]
                  /\ SyncReturns(c, FALSE, how,
                                 wallabagoResponseEntitiesMsg(c.entries, c.att))
    /\ UNCHANGED <<build, conf, m, exit, remote, patched, attempts, counts,
                   delivered, last, nkeys>>

Next ==
    \/ \E k \in Keys : Key(k)
    \/ \E msg \in BagToSet(msgs) : Deliver(msg)
    \/ \E c \in BagToSet(cmds), ok \in BOOLEAN : CountReply(c, ok)
    \/ \E c \in BagToSet(cmds) : SyncEarlyError(c)
    \/ \E c \in BagToSet(cmds) : SyncFromCache(c)
    \/ \E c \in BagToSet(cmds) : SyncPageOk(c)
    \/ \E c \in BagToSet(cmds) : SyncPageFails(c)
    \/ \E c \in BagToSet(cmds) : SyncDoneMain(c)
    \/ \E c \in BagToSet(cmds), how \in {"ok", "open", "encode"} :
          SyncDoneTui(c, how)

Spec == Init /\ [][Next]_vars

----------------------------------------------------------------------------
(* Moving between the views after a sync without a cache, and updating the
   status of the entry shown *)

NavKeys == (Keys \ {"r"}) \cup {"S", "A"}

InitViews ==
    /\ Init
    /\ cache = NoCache
    /\ build = "tui" => (conf.perCall = MaxPerCall /\ remote = MaxRemote)
    /\ build = "main" => remote = articleByAPICall + 1

NavKey(k) == nkeys < MaxNavKeys /\ KeyPressed(k)

\* The closure of requestWallabagEntryUpdate runs: the server updates the
\* entry and returns it ("ok"), the request fails ("fail") or the server
\* updates the entry and its answer cannot be decoded ("invalid").
EntryUpdateReply(c, how) ==
    /\ exit = "running"
    /\ BagIn(c, cmds)
    /\ c.type = "entryUpdate"
    /\ Return(c, CASE how = "ok" -> wallabagoResponseEntityUpdateMsg(c.entries[1])
                   [] how = "fail" -> wallabagoResponseErrorMsg(ErrUpdate, 0)
                   [] OTHER -> wallabagoResponseErrorMsg(ErrInvalid, 0))
    /\ patched' = IF how = "fail" THEN patched
                  ELSE UpdateEntry(patched, c.entries[1], attempts)
    /\ UNCHANGED <<build, conf, m, exit, cache, remote, attempts, counts,
                   finished, delivered, last, nkeys>>

NextViews ==
    \/ \E k \in NavKeys : NavKey(k)
    \/ \E msg \in BagToSet(msgs) : Deliver(msg)
    \/ \E c \in BagToSet(cmds), ok \in BOOLEAN : CountReply(c, ok)
    \/ \E c \in BagToSet(cmds) : SyncPageOk(c)
    \/ \E c \in BagToSet(cmds) : SyncDoneMain(c)
    \/ \E c \in BagToSet(cmds) : SyncDoneTui(c, "ok")
    \/ \E c \in BagToSet(cmds), how \in {"ok", "fail", "invalid"} :
          EntryUpdateReply(c, how)

SpecViews == InitViews /\ [][NextViews]_vars

----------------------------------------------------------------------------
(* A status update followed by a reload, in the tui build *)

MaxMutateKeys == 4

MutateKeys == {"enter", "S", "A", "q", "r"}

InitMutate == InitViews /\ build = "tui"

MutateKey(k) == nkeys < MaxMutateKeys /\ KeyPressed(k)

NextMutate ==
    \/ \E k \in MutateKeys : MutateKey(k)
    \/ \E msg \in BagToSet(msgs) : Deliver(msg)
    \/ \E c \in BagToSet(cmds) : CountReply(c, TRUE)
    \/ \E c \in BagToSet(cmds) : SyncFromCache(c)
    \/ \E c \in BagToSet(cmds) : SyncPageOk(c)
    \/ \E c \in BagToSet(cmds) : SyncDoneTui(c, "ok")
    \/ \E c \in BagToSet(cmds), how \in {"ok", "fail", "invalid"} :
          EntryUpdateReply(c, how)

SpecMutate == InitMutate /\ [][NextMutate]_vars

----------------------------------------------------------------------------
(* Keys and errors while a dialog is open, in the tui build *)

MaxDialogKeys == 2

\* The keys typed: two character keys, confirm, cancel and quit.
DialogKeys == {"?", "h", "enter", "esc", "ctrl+c"}

\* The models with a dialog: the add-URL dialog over the list or an entry,
\* the delete dialog or an error over the entry shown; reloading or not.
DialogModels ==
    { [NewModel([perCall |-> 1, unread |-> FALSE, starred |-> FALSE])
          EXCEPT !.Dialog = d,
                 !.SelectedID = sel,
                 !.CurrentView = IF sel > 0 THEN "detail" ELSE "list",
                 !.Reloading = reloading,
                 !.TotalEntriesOnServer = MaxRemote,
                 !.Entries = RemoteItems(MaxRemote),
                 !.Rows = getTableRows(RemoteItems(MaxRemote),
                                       [Unread |-> FALSE, Starred |-> FALSE,
                                        Archived |-> FALSE])] :
        d \in {AddDialog, DeleteDialog(1), ErrorDialog(ErrUpdate)},
        sel \in 0..1,
        reloading \in BOOLEAN }

\* A dialog is open; a status update of the entry shown, or the failure of a
\* sync, may be in flight.
InitDialog ==
    /\ build = "tui"
    /\ conf = [perCall |-> 1, unread |-> FALSE, starred |-> FALSE]
    /\ m \in {mm \in DialogModels :
                 mm.Dialog.Action = DeleteAction(1) => mm.SelectedID = 1}
    /\ exit = "running"
    /\ \/ cmds = EmptyBag /\ msgs = EmptyBag
       \/ /\ m.SelectedID = 1
          /\ cmds = One(requestWallabagEntryUpdate(1, 1, 1, 0))
          /\ msgs = EmptyBag
       \/ /\ m.Reloading
          /\ cmds = EmptyBag
          /\ msgs = One(wallabagoResponseErrorMsg(ErrPage, 1))
    /\ cache = NoCache
    /\ remote = MaxRemote
    /\ patched = {}
    /\ attempts = 1
    /\ counts = {}
    /\ finished = {}
    /\ delivered = {}
    /\ last = NoLast
    /\ nkeys = 0

DialogKey(k) == nkeys < MaxDialogKeys /\ KeyPressed(k)

NextDialog ==
    \/ \E k \in DialogKeys : DialogKey(k)
    \/ \E msg \in BagToSet(msgs) : Deliver(msg)
    \/ \E c \in BagToSet(cmds), how \in {"ok", "fail", "invalid"} :
          EntryUpdateReply(c, how)

SpecDialog == InitDialog /\ [][NextDialog]_vars

----------------------------------------------------------------------------
(* The lookup of the selected entry in every entry list *)

\* Entry lists of up to MaxItems entries whose IDs are drawn from
\* 1..MaxItems + 1, in any order.
LookupLists ==
    UNION { { [i \in 1..n |-> Item(ids[i])] :
                ids \in [1..n -> 1..(MaxItems + 1)] } :
            n \in 0..MaxItems }

InitLookup ==
    /\ build = "main"
    /\ conf = [perCall |-> articleByAPICall, unread |-> TRUE, starred |-> FALSE]
    /\ \E items \in LookupLists, id \in 0..(MaxItems + 2) :
          m = [initialModel EXCEPT !.Entries = items, !.SelectedID = id]
    /\ exit = "running"
    /\ cmds = EmptyBag
    /\ msgs = EmptyBag
    /\ cache = NoCache
    /\ remote = 0
    /\ patched = {}
    /\ attempts = 0
    /\ counts = {}
    /\ finished = {}
    /\ delivered = {}
    /\ last = NoLast
    /\ nkeys = 0

\* m.Viewport.SetContent(getDetailViewportContent(m.SelectedID, m.Entries))
SetContent ==
    /\ last.type = "none"
    /\ m' = [m EXCEPT !.Viewport = getDetailViewportContent(m.SelectedID,
                                                            m.Entries)]
    /\ last' = [NoLast EXCEPT !.type = "lookup"]
    /\ UNCHANGED <<build, conf, exit, cmds, msgs, cache, remote, patched, attempts,
                   counts, finished, delivered, nkeys>>

NextLookup == SetContent

SpecLookup == InitLookup /\ [][NextLookup]_vars

----------------------------------------------------------------------------
(* Update called with a clear message, in every view and with either payload *)

\* The models a clear message may find: the banner set or empty, a dialog
\* open or not, each view, reloading or not.
ClearModels ==
    { [NewModel([perCall |-> 1, unread |-> TRUE, starred |-> FALSE])
          EXCEPT !.UpdateMessage = banner,
                 !.Dialog.Message = dialog,
                 !.CurrentView = view,
                 !.SelectedID = sel,
                 !.Reloading = reloading,
                 !.Entries = items,
                 !.Rows = getTableRows(items, [Unread |-> TRUE,
                                               Starred |-> FALSE,
                                               Archived |-> FALSE])] :
        banner \in {"", "Updating entry"},
        dialog \in {"", ErrUpdate},
        view \in {"list", "detail", "help"},
        sel \in 0..1,
        reloading \in BOOLEAN,
        items \in {<<>>, RemoteItems(MaxRemote)} }

InitClear ==
    /\ build = "tui"
    /\ conf = [perCall |-> 1, unread |-> TRUE, starred |-> FALSE]
    /\ m \in {mm \in ClearModels : mm.CurrentView = "detail" => mm.SelectedID > 0}
    /\ exit = "running"
    /\ cmds = EmptyBag
    /\ \E b \in BOOLEAN : msgs = One(wallabagoResponseClearMsg(b))
    /\ cache = NoCache
    /\ remote = MaxRemote
    /\ patched = {}
    /\ attempts = 1
    /\ counts = {}
    /\ finished = {}
    /\ delivered = {}
    /\ last = NoLast
    /\ nkeys = 0

NextClear == \E msg \in BagToSet(msgs) : Deliver(msg)

SpecClear == InitClear /\ [][NextClear]_vars

----------------------------------------------------------------------------
(* The table rows of every entry list and every filter setting *)

\* Entry lists of up to MaxItems entries with IDs 1, 2, ... and every
\* combination of the archived and starred flags.
ItemLists ==
    UNION {
        { [i \in 1..n |-> [ID |-> i, IsArchived |-> a[i], IsStarred |-> st[i]]] :
            a \in [1..n -> {0, 1}], st \in [1..n -> {0, 1}] } :
        n \in 0..MaxItems }

\* The filter settings the keys can reach.
FilterSettings ==
    {f \in [Unread : BOOLEAN, Starred : BOOLEAN, Archived : BOOLEAN] :
        ~(f.Unread /\ f.Archived)}

InitRows ==
    /\ build = "tui"
    /\ conf = [perCall |-> 1, unread |-> TRUE, starred |-> FALSE]
    /\ \E items \in ItemLists, f \in FilterSettings :
          m = [NewModel(conf) EXCEPT !.Entries = items, !.Filters = f]
    /\ exit = "running"
    /\ cmds = EmptyBag
    /\ msgs = EmptyBag
    /\ cache = NoCache
    /\ remote = 0
    /\ patched = {}
    /\ attempts = 0
    /\ counts = {}
    /\ finished = {}
    /\ delivered = {}
    /\ last = NoLast
    /\ nkeys = 0

\* m.Table.SetRows(getTableRows(m.Entries, m.Options.Filters))
SetRows ==
    /\ last.type = "none"
    /\ m' = [m EXCEPT !.Rows = getTableRows(m.Entries, m.Filters)]
    /\ last' = [NoLast EXCEPT !.type = "rows"]
    /\ UNCHANGED <<build, conf, exit, cmds, msgs, cache, remote, patched, attempts,
                   counts, finished, delivered, nkeys>>

NextRows == SetRows

SpecRows == InitRows /\ [][NextRows]_vars

----------------------------------------------------------------------------
(* Properties *)

\* A file mode with a read bit for the group or for the others.
NonOwnerRead(mode) ==
    BitAnd(mode, GroupRead) /= 0 \/ BitAnd(mode, OtherRead) /= 0

\* C1 (cache gate): a sync built from a cache file that has a group-read or
\* other-read bit returns the security error message, and never an entries
\* message made from the cache.
C1_CacheGate ==
    \A f \in finished :
        (f.file.present /\ NonOwnerRead(f.file.mode)) =>
            /\ ~f.fromCache
            /\ f.emitted = "error"
            /\ f.text = ErrSecurity

\* C2 (sync abort): once a page request of a sync has failed, the sync
\* requests no further page, returns one error message and no entries
\* message, leaves the cache file unwritten, and the Update that receives the
\* error leaves Entries as they were.
C2_SyncAbort ==
    /\ \A c \in BagToSet(cmds) : c.failedAt = 0
    /\ \A f \in finished :
          f.failedAt > 0 =>
              /\ f.reqs = [i \in 1..f.failedAt |-> i]
              /\ f.emitted = "error"
              /\ f.how = ""
    /\ last.type = "error" => last.kept

\* C3 (cache write failure keeps the data): when every page request of a
\* sync succeeded and the writing of the cache failed, the entries fetched
\* are the model's Entries once Update has received the message of that sync.
C3_WriteFailureKeepsData ==
    \A f \in finished :
        (f.how \in {"open", "encode"} /\ last.att = f.att
            /\ last.type \in {"error", "entities"}) =>
                m.Entries = f.fetched


\* The updater the precedence dialog > help > detail > list gives for the
\* last message, from the model Update was called with: an error message
\* opens the dialog and a row selection sets the selection before the routing.
PrecedenceView ==
    IF last.preDialog \/ last.type = "error" THEN "dialog"
    ELSE IF last.preHelp THEN "help"
    ELSE IF (IF last.type = "selectRow" THEN last.n > 0 ELSE last.preSel)
    THEN "detail"
    ELSE "list"

\* C4 (view precedence): a message that Update routes goes to the updater
\* the precedence dialog > help > detail > list gives; with a dialog message
\* and a selected entry at once it goes to the dialog updater.
C4_ViewPrecedence ==
    /\ last.to /= "none" => last.to = PrecedenceView
    /\ (last.type /= "none" /\ last.to /= "none"
          /\ m.Dialog.Message /= "" /\ m.SelectedID > 0) => last.to = "dialog"

C4_Witness ==
    /\ m.Dialog.Message /= ""
    /\ m.SelectedID > 0
    /\ last.preSel
    /\ last.to = "dialog"

\* C5 (error priority): after Update has received an error message, in
\* whatever view, Reloading is false, the dialog shows the error text and the
\* message went to the dialog updater.
C5_ErrorPriority ==
    last.type = "error" =>
        /\ ~m.Reloading
        /\ m.Dialog.Message = last.text
        /\ last.to = "dialog"

C5_Witness ==
    /\ last.type = "error"
    /\ last.preSel
    /\ last.reloading
    /\ ~last.preDialog

\* The step is the list updater handling the filter key k.
FilterKeyStep(k) ==
    /\ nkeys' = nkeys + 1
    /\ last'.type = "key"
    /\ last'.text = k
    /\ last'.to = "list"

\* C6 (filter mutual exclusion): Unread and Archived are never both set;
\* the keys u, s and a toggle their own flag; switching Unread on clears
\* Archived, switching Archived on clears Unread, and a change of Starred
\* changes neither of the two.
C6_FilterMutualExclusion ==
    /\ ~(m.Filters.Unread /\ m.Filters.Archived)
    /\ [][ /\ ~(m'.Filters.Unread /\ m'.Filters.Archived)
           /\ FilterKeyStep("u") =>
                 /\ m'.Filters.Unread = ~m.Filters.Unread
                 /\ m'.Filters.Unread => ~m'.Filters.Archived
                 /\ m'.Filters.Starred = m.Filters.Starred
           /\ FilterKeyStep("a") =>
                 /\ m'.Filters.Archived = ~m.Filters.Archived
                 /\ m'.Filters.Archived => ~m'.Filters.Unread
                 /\ m'.Filters.Starred = m.Filters.Starred
           /\ FilterKeyStep("s") =>
                 /\ m'.Filters.Starred = ~m.Filters.Starred
                 /\ m'.Filters.Unread = m.Filters.Unread
                 /\ m'.Filters.Archived = m.Filters.Archived
           /\ m'.Filters.Starred /= m.Filters.Starred =>
                 /\ m'.Filters.Unread = m.Filters.Unread
                 /\ m'.Filters.Archived = m.Filters.Archived ]_vars

C6_Witness ==
    /\ conf.unread
    /\ nkeys = 1
    /\ last.text = "a"
    /\ last.to = "list"
    /\ m.Filters.Archived
    /\ ~m.Filters.Unread


\* An entry passes the active filters: unread wants it not archived, starred
\* wants the starred flag, archived wants the archived flag.
Visible(e, f) ==
    /\ f.Unread => e.IsArchived = 0
    /\ f.Starred => e.IsStarred = 1
    /\ f.Archived => e.IsArchived = 1

\* C7 (filter correctness): the rows computed from an entry list are one row
\* for each entry that passes all active filters and no other row; with no
\* filter active there is a row for every entry.
C7_FilterCorrectness ==
    last.type = "rows" =>
        LET shown == {i \in 1..Len(m.Entries) : Visible(m.Entries[i], m.Filters)}
        IN  /\ Len(m.Rows) = Cardinality(shown)
            /\ \A i \in 1..Len(m.Entries) :
                  i \in shown <=>
                      \E r \in 1..Len(m.Rows) :
                          Atoi(m.Rows[r][1]) = m.Entries[i].ID
            /\ (~m.Filters.Unread /\ ~m.Filters.Starred /\ ~m.Filters.Archived)
                  => Len(m.Rows) = Len(m.Entries)

C7_Witness ==
    /\ last.type = "rows"
    /\ m.Filters.Unread
    /\ m.Filters.Starred
    /\ Len(m.Entries) = 3
    /\ Len(m.Rows) = 1

CeilDiv(n, p) == (n + p - 1) \div p

\* The pages 1..k of a server with n entries, one after the other.
RECURSIVE PagesInOrder(_, _, _)
PagesInOrder(n, p, k) ==
    IF k = 0 THEN <<>> ELSE PagesInOrder(n, p, k - 1) \o GetEntries(n, p, k)

\* A sync that went to the server and saw no page request fail.
RemoteSyncs ==
    {f \in finished : ~f.fromCache /\ f.failedAt = 0
                        /\ f.text \notin {ErrSecurity, ErrDecode}}

\* The commands in flight request their pages in the order 1, 2, ...
PagesSequential ==
    \A c \in BagToSet(cmds) :
        c.type = "entries" => c.reqs = [i \in 1..(c.i - 1) |-> i]

\* C8 as stated (pagination): a remote sync of N entries with page size P
\* requests the pages 1..ceil(N / P) in that order and holds their
\* concatenation.
C8_PaginationAsStated ==
    /\ PagesSequential
    /\ \A f \in RemoteSyncs :
          /\ f.reqs = [i \in 1..CeilDiv(f.nb, f.perCall) |-> i]
          /\ f.fetched = PagesInOrder(f.nb, f.perCall, CeilDiv(f.nb, f.perCall))

\* The number of pages of the amended claim: at least one.
PagesOf(n, p) == IF n = 0 THEN 1 ELSE CeilDiv(n, p)

\* C8 (pagination, amended): a remote sync of N >= 1 entries with page size
\* P requests the pages 1..ceil(N / P) in that order, a sync of N = 0
\* entries requests page 1, and the sync holds the concatenation of its
\* pages; 120 entries in pages of 55 take 3 requests, 55 take 1.
C8_Pagination ==
    /\ PagesSequential
    /\ \A f \in RemoteSyncs :
          /\ f.reqs = [i \in 1..PagesOf(f.nb, f.perCall) |-> i]
          /\ f.fetched = PagesInOrder(f.nb, f.perCall, PagesOf(f.nb, f.perCall))
    /\ getRequiredNbAPICalls(120, 55) = 3
    /\ getRequiredNbAPICalls(55, 55) = 1

C8_Witness ==
    \E f \in RemoteSyncs :
        /\ f.nb = 120
        /\ f.reqs = <<1, 2, 3>>
        /\ f.emitted = "entities"
        /\ Len(f.items) = 120

\* The cache file a sync was built from is present, passes the test on its
\* mode, can be read and decodes to at least one entry.
CacheUsable(file) ==
    /\ file.present
    /\ ~CacheGateTrips(file.mode)
    /\ ReadFileOk(file.mode)
    /\ GobDecode(file.data).ok
    /\ Len(GobDecode(file.data).items) > 0

\* C9 as stated (cache hit skips the remote protocol): a sync attempt with a
\* usable cache sends neither the count request nor a page request.
C9_CacheHitSkipsRemote ==
    \A f \in finished :
        CacheUsable(f.file) =>
            /\ f.reqs = <<>>
            /\ \A r \in counts : r.att /= f.att

\* C9 (amended): a sync attempt with a usable cache returns the cached
\* entries without a page request and without writing the cache; the count
\* request of the attempt has been sent before the cache is looked at.
C9_CacheHitSkipsPages ==
    /\ \A c \in BagToSet(cmds) :
          (c.type = "entries" /\ CacheUsable(c.file)) => c.reqs = <<>>
    /\ \A f \in finished :
          CacheUsable(f.file) =>
              /\ f.fromCache
              /\ f.reqs = <<>>
              /\ f.how = ""
              /\ f.emitted = "entities"
              /\ f.items = GobDecode(f.file.data).items
              /\ [att |-> f.att, ok |-> TRUE] \in counts

C9_Witness ==
    \E f \in finished :
        /\ f.fromCache
        /\ f.items = OldSnapshot
        /\ [type |-> "entities", att |-> f.att] \in delivered
        /\ m.Entries = OldSnapshot

\* The error messages of the failed count request of attempt a: the ones
\* not yet delivered and the one Update has received.
CountErrors(a) ==
    CopiesIn(wallabagoResponseErrorMsg(ErrCount, a), msgs)
    + (IF [type |-> "error", att |-> a] \in delivered THEN 1 ELSE 0)

\* C10 (count failure): a failed count request ends the sync attempt with one
\* error message, no count and no page request, and does not end the
\* process.
C10_CountFailure ==
    /\ exit /= "exit1"
    /\ \A r \in counts :
          ~r.ok =>
              /\ CountErrors(r.att) = 1
              /\ \A x \in BagToSet(msgs) :
                    x.att = r.att => x.type = "error"
              /\ \A d \in delivered : d.att = r.att => d.type = "error"
              /\ \A c \in BagToSet(cmds) : c.att /= r.att
              /\ \A f \in finished : f.att /= r.att


\* A sync built from a cache file that the permission test rejects.
GateRejected(f) == f.file.present /\ CacheGateTrips(f.file.mode)

\* C11 as stated (security error is recoverable): a sync whose cache file
\* fails the permission test goes on to the remote fetch and returns the
\* entries of the server.
C11_SecurityErrorFallsBack ==
    \A f \in finished :
        GateRejected(f) =>
            /\ f.reqs /= <<>>
            /\ f.emitted = "entities"

\* C11 (amended): a sync whose cache file fails the permission test ends with
\* the security error message alone: it sends no page request, takes nothing
\* from the cache, and once Update has handled the error the dialog shows it,
\* Reloading is false and Entries are as they were.
C11_SecurityErrorAborts ==
    /\ \A f \in finished :
          GateRejected(f) =>
              /\ f.reqs = <<>>
              /\ ~f.fromCache
              /\ f.emitted = "error"
              /\ f.text = ErrSecurity
              /\ f.how = ""
    /\ (last.type = "error" /\ last.text = ErrSecurity) =>
          /\ m.Dialog.Message = ErrSecurity
          /\ ~m.Reloading
          /\ last.kept

C11_Witness ==
    /\ \E f \in finished : GateRejected(f) /\ f.text = ErrSecurity
    /\ last.type = "error"
    /\ last.text = ErrSecurity
    /\ m.Entries = <<>>
    /\ exit = "running"

\* Every sync of the run has ended and its message has been handled, and
\* the run had a reload.
AllDelivered == attempts >= 2 /\ InFlight = 0

\* C12 (overlapping reloads): a key cancels no command and no message in
\* flight, and once the results of all syncs have been delivered the model's
\* Entries are the payload of the entries message Update received last.
C12_LastAppliedWins ==
    /\ AllDelivered => m.Entries = last.payload
    /\ [][ /\ \A k \in Keys :
                Key(k) => (cmds \sqsubseteq cmds' /\ msgs \sqsubseteq msgs')
           /\ AllDelivered' => m'.Entries = last'.payload ]_vars

\* What Update returns for the quit key when the model is mm.
QuitKey(mm) == Update(KeyMsg("ctrl+c"), mm, build, cache, attempts + 1)

\* The dialogs the quit key may find open: none, an error, a text input.
QuitDialogs ==
    {NoDialog, ErrorDialog(ErrPage), AddDialog}

\* C13 (quit overrides every view): in every state, whatever dialog is open,
\* the key ctrl+c makes Update return the quit command without calling a
\* view updater and without changing the model.
C13_QuitOverrides ==
    /\ \A d \in QuitDialogs :
          LET mm == [m EXCEPT !.Dialog = d]
          IN  /\ QuitKey(mm).exit = "quit"
              /\ QuitKey(mm).to = "none"
              /\ QuitKey(mm).m = mm
              /\ QuitKey(mm).cmds = EmptyBag
    /\ (last.type = "key" /\ last.text = "ctrl+c") =>
          (exit = "quit" /\ last.to = "none")

C13_Witness ==
    /\ last.type = "key"
    /\ last.text = "ctrl+c"
    /\ last.preDialog
    /\ exit = "quit"

\* C14 (help gate): the key '?' pressed while Reloading is true, outside the
\* help view, does not set the view to help.
C14_HelpGate ==
    (last.type = "key" /\ last.text = "?" /\ last.reloading /\ ~last.preHelp)
        => m.CurrentView /= "help"


\* C17 (selection before routing): a row-selection message with an ID above
\* 0 that arrives while no dialog is open and the help view is not shown is
\* handled by the detail updater in the same call of Update: afterwards
\* SelectedID is the ID, the view is the detail view and the viewport shows
\* that entry (the placeholders when the entries do not hold it).
C17_SelectionBeforeRouting ==
    (last.type = "selectRow" /\ last.n > 0 /\ ~last.preDialog /\ ~last.preHelp)
        => /\ last.to = "detail"
           /\ m.SelectedID = last.n
           /\ m.CurrentView = "detail"
           /\ m.Viewport = IF \E i \in 1..Len(m.Entries) :
                                  m.Entries[i].ID = last.n
                           THEN last.n
                           ELSE 0

C17_Witness ==
    /\ last.type = "selectRow"
    /\ last.n > 0
    /\ ~last.preSel
    /\ last.to = "detail"
    /\ m.Viewport = last.n


\* C15 (weak SelectedID): the lookup of an ID no entry has answers -1 and the
\* detail content is the placeholders; the lookup of an ID some entry has
\* answers the index of the first such entry, which is shown; no lookup
\* indexes the entries out of range.
C15_WeakSelectedID ==
    last.type = "lookup" =>
        LET index == getSelectedEntryIndex(m.Entries, m.SelectedID)
            held == \E i \in 1..Len(m.Entries) : m.Entries[i].ID = m.SelectedID
        IN  /\ m.Viewport /= -1
            /\ ~held => (index = -1 /\ m.Viewport = 0)
            /\ held => /\ index \in 0..(Len(m.Entries) - 1)
                       /\ m.Entries[index + 1].ID = m.SelectedID
                       /\ \A j \in 1..index : m.Entries[j].ID /= m.SelectedID
                       /\ m.Viewport = m.SelectedID

C15_Witness ==
    /\ last.type = "lookup"
    /\ m.SelectedID > 0
    /\ Len(m.Entries) = 2
    /\ \A i \in 1..Len(m.Entries) : m.Entries[i].ID /= m.SelectedID
    /\ m.Viewport = 0

\* The view updater the next message goes to.
NextUpdater == IF build = "tui" THEN Route(m) ELSE RouteMain(m)

\* Update has passed the back key to the help updater.
HelpBack == last.type = "key" /\ last.text = "q" /\ last.to = "help"

GlobalReturn ==
    /\ last.type = "key"
    /\ \/ last.text = "ctrl+c"
       \/ last.text = "?" /\ (build = "main" \/ ~last.reloading)

ViewUpdaters == {"dialog", "help", "detail", "list"}

\* C19 as stated (exactly one updater per message): every message that gets
\* past the global keys is passed to one of the four view updaters.
C19_OneUpdaterPerMessage ==
    (last.type /= "none" /\ ~GlobalReturn) => last.to \in ViewUpdaters

\* C19 (amended): every message that gets past the global keys is passed to
\* exactly one of the four view updaters, the clear message included, except
\* the entity-update message, for which Update returns before the routing and
\* calls no view updater.
C19_OneUpdaterButEntityUpdate ==
    last.type /= "none" =>
        /\ last.to \in ViewUpdaters \cup {"none"}
        /\ last.to = "none" <=> (GlobalReturn \/ last.type = "entityUpdate")

C19_Witness ==
    /\ last.type = "clear"
    /\ last.to = "detail"
    /\ delivered /= {}

----------------------------------------------------------------------------
(* C24: the select key on an empty list *)

\* The select key is handed to the list updater while the table has no row.
SelectOnEmptyList ==
    /\ exit = "running"
    /\ nkeys' = nkeys + 1
    /\ last'.type = "key" /\ last'.text = "enter" /\ last'.to = "list"
    /\ Len(m.Rows) = 0

\* C24: pressing the select key in the list view while no row is visible
\* does not fail: the program goes on, no selection message is issued and
\* SelectedID stays 0.
C24_SelectOnEmptyList ==
    [][SelectOnEmptyList =>
           /\ exit' = "running"
           /\ msgs' = msgs
           /\ m'.SelectedID = 0]_vars

----------------------------------------------------------------------------
(* C22: sync results that arrive outside the list view *)

\* Update has handled the sync result msg: after a count result the page
\* fetch of that sync is in flight, after an entries result the Entries are
\* the payload and Reloading is false.
SyncResultHandled(msg) ==
    /\ msg.type = "nbEntities" =>
           \E c \in BagToSet(cmds') : c.type = "entries" /\ c.att = msg.att
    /\ msg.type = "entities" =>
           ~m'.Reloading /\ m'.Entries = msg.items

\* C22: every sync result is applied on delivery, whatever view is active:
\* a count result issues the page fetch, an entries result replaces Entries
\* and ends the reloading (so that Reloading becomes false once the result
\* of a successful sync has been delivered, without a further reload).
C22_SyncResultApplied ==
    [][\A msg \in BagToSet(msgs) :
           (msg.type \in {"nbEntities", "entities"} /\ Deliver(msg))
               => SyncResultHandled(msg)]_vars

----------------------------------------------------------------------------
(* C23: a reload after a status update *)

\* Entries show the update u of the server: the entry with u's ID is there
\* and has u's flags.
Shows(entries, u) ==
    \E i \in 1..Len(entries) :
        /\ entries[i].ID = u.ID
        /\ entries[i].IsArchived = u.IsArchived
        /\ entries[i].IsStarred = u.IsStarred

\* C23: a reload never reverts a flag that was changed.  When a reload
\* completes (its entries message is applied by the list updater), every
\* status update that succeeded on the server before the reload was started
\* and that the Entries showed is still shown by the Entries.
C23_ReloadKeepsMutation ==
    [][\A msg \in BagToSet(msgs) :
           (msg.type = "entities" /\ Deliver(msg) /\ last'.to = "list")
               => \A u \in patched :
                      (u.at < msg.att /\ Shows(m.Entries, u))
                          => Shows(m'.Entries, u)]_vars

----------------------------------------------------------------------------
(* C21: character keys while a text-input dialog is open *)

\* The key k is typed while a dialog with a text input is open.
TypedInDialog(k) ==
    /\ m.Dialog.Message /= ""
    /\ m.Dialog.ShowInput
    /\ DialogKey(k)

\* C21: while a dialog with a text input is open, every character key typed
\* (any key but confirm, cancel and quit), '?' included, is appended to the
\* text input and changes nothing else in the model; no command is issued.
C21_DialogGetsCharacterKeys ==
    [][\A k \in DialogKeys \ {"enter", "esc", "ctrl+c"} :
           TypedInDialog(k) =>
               /\ m' = [m EXCEPT !.Dialog.TextInput = Append(@, k)]
               /\ cmds' = cmds
               /\ msgs' = msgs]_vars

----------------------------------------------------------------------------
(* C25: the dialog an error message leaves *)

\* C25: after an error message has been processed the dialog shows the error
\* text, has an empty action tag and no text input; and confirming a dialog
\* that shows an error text issues no command.
C25_ErrorDialogHasNoAction ==
    [][/\ \A msg \in BagToSet(msgs) :
              (msg.type = "error" /\ Deliver(msg)) =>
                  /\ m'.Dialog.Message = msg.text
                  /\ m'.Dialog.Action = ""
                  /\ ~m'.Dialog.ShowInput
       /\ (m.Dialog.Message \in {ErrUpdate, ErrInvalid, ErrPage}
              /\ DialogKey("enter")) => cmds' = cmds]_vars
====
